---- MODULE Spec2Model ----
(***************************************************************************)
(* Model of train.py, the wrapper that prepares phrase-pair training data  *)
(* and drives the training loop of an RNN encoder-decoder.                 *)
(*                                                                         *)
(* Two state machines share the module:                                    *)
(*   SpecVocab : parseCorpus followed by readWordVectors (one language)    *)
(*   Spec      : getPartitions followed by the module-level training loop  *)
(*               (shuffle, minibatch, rnn.train, rnn.test, saveModel,      *)
(*               learning-rate decay and the two loop exits)               *)
(* The external model rnn is opaque: rnn.train changes its state, rnn.test *)
(* returns any float (a finite value, +inf or nan).                        *)
(***************************************************************************)
EXTENDS Integers, Sequences, FiniteSets, TLC

VARIABLES
  \* ---- training program (lines 219-288) ----
  phrasePairs,   \* the example list read from the phrase table
  seed, bs, nepochs, lr,   \* s['seed'], s['bs'], s['nepochs'], s['lr']
  train, dev,    \* the two partitions (line 252)
  rnn,           \* state of the external model: number of updates applied
  best_dev_nll,  \* line 262
  clr,           \* s['clr']: [num, exp] = num * 2^-exp, in units of 1e-6
  e, ce, be,     \* loop variable, s['ce'], s['be'] (NoKey while unset)
  dev_nll,       \* result of the last rnn.test
  i,             \* offset of the next mini-batch (xrange of minibatch)
  fs,            \* files of outDir: file name -> pickled bundle
  pc,            \* position in the program
  \* ---- history of the calls made (observation only) ----
  calls,         \* calls to rnn made in the current epoch, in order
  hist,          \* per finished evaluation: the loss and the model state
  saves,         \* bundles handed to saveModel, in order
  order0,        \* the training list as presented in epoch 0
  \* ---- vocabulary program (lines 24-112) ----
  corpus,        \* the lines of the corpus, each a sequence of tokens
  pruneThreshold,
  vectorFile,    \* [dim, words]: header dimension and words with a vector
  vocab, rVocab, coverage,
  unkCount, embeddings,
  vpc

trainVars == <<phrasePairs, seed, bs, nepochs, lr, train, dev, rnn,
               best_dev_nll, clr, e, ce, be, dev_nll, i, fs, pc,
               calls, hist, saves, order0>>
vocabVars == <<corpus, pruneThreshold, vectorFile, vocab, rVocab, coverage,
               unkCount, embeddings, vpc>>
vars == <<trainVars, vocabVars>>

----------------------------------------------------------------------------
\* Bounds of the model

MaxN      == 5    \* longest example list
MaxBs     == 2    \* largest mini-batch size of the small configurations
MaxEpochs == 5    \* epoch budget of the small configurations
MaxLoss   == 3    \* finite losses are 1..MaxLoss
MaxLines  == 2    \* lines in a corpus
MaxLineLen == 2   \* tokens on a line
MaxPrune  == 2    \* largest prune threshold

----------------------------------------------------------------------------
\* Hyperparameters as shipped (the dictionary s)

ShippedLr      == 82700   \* 0.0827 in units of 1e-6
ShippedBs      == 1000
ShippedSeed    == 324
ShippedNepochs == 25
EmbDimension   == 50
MinLr          == 10      \* 1e-5 in units of 1e-6
PatienceEpochs == 3
NoKey          == -1      \* s has no key 'be' yet

Min(a, b) == IF a < b THEN a ELSE b

RECURSIVE Pow2(_)
Pow2(n) == IF n = 0 THEN 1 ELSE 2 * Pow2(n - 1)

----------------------------------------------------------------------------
\* Floats returned by rnn.test: a finite value, +inf or nan

Fin(n) == [k |-> "fin", v |-> n]
Inf    == [k |-> "inf", v |-> 0]
NaN    == [k |-> "nan", v |-> 0]
Losses == {Fin(n) : n \in 1..MaxLoss} \cup {Inf, NaN}

\* a < b on floats: false whenever either side is nan
Lt(a, b) ==
  /\ a.k # "nan" /\ b.k # "nan"
  /\ \/ a.k = "fin" /\ b.k = "inf"
     \/ a.k = "fin" /\ b.k = "fin" /\ a.v < b.v

\* The current learning rate lr * 0.5^exp (halving a float is exact)
Halve(c) == [c EXCEPT !.exp = @ + 1]

\* s['clr'] < 1e-5
BelowMinLr(c) == c.num < MinLr * Pow2(c.exp)

----------------------------------------------------------------------------
\* shuffle (lines 157-166): random.seed(seed); random.shuffle(l)

Seeds == {ShippedSeed, 1}

\* floor(1000 * random()) for the first calls of random() after
\* random.seed(sd) (Mersenne Twister, as produced by the interpreter)
RandomStream(sd) ==
  IF sd = ShippedSeed
    THEN <<590, 716, 967, 470, 534, 829, 72, 264>>
    ELSE <<134, 847, 763, 255, 495, 449, 651, 788>>

Swap(l, a, b) == [l EXCEPT ![a] = l[b], ![b] = l[a]]

\* random.shuffle: for i in reversed(xrange(1, len(x))):
\*                   j = int(random() * (i+1)); x[i], x[j] = x[j], x[i]
\* (i is the 0-based index, k counts the calls of random())
RECURSIVE ShuffleFrom(_, _, _, _)
ShuffleFrom(l, idx, k, sd) ==
  IF idx < 1 THEN l
  ELSE LET j == (RandomStream(sd)[k] * (idx + 1)) \div 1000
       IN  ShuffleFrom(Swap(l, idx + 1, j + 1), idx - 1, k + 1, sd)

Shuffle(l, sd) == ShuffleFrom(l, Len(l) - 1, 1, sd)

\* A split point that rounds to nearest instead of down
SplitPointRounded(n) == (4 * n + 2) \div 5

\* int(0.8 * n)
SplitPoint(n) == (4 * n) \div 5

\* getPartitions (lines 169-179): the shuffled list and its two slices
Shuffled(pp, sd) == Shuffle(pp, sd)
TrainPart(pp, sd) == SubSeq(Shuffled(pp, sd), 1, SplitPoint(Len(pp)))
DevPart(pp, sd)   == SubSeq(Shuffled(pp, sd), SplitPoint(Len(pp)) + 1, Len(pp))

\* A minibatch that drops a final batch shorter than size
BatchFullOnly(l, off, size) ==
  IF off + size <= Len(l) THEN SubSeq(l, off + 1, off + size) ELSE <<>>

\* minibatch (lines 115-127): the slice l[off : off+size]
Batch(l, off, size) == SubSeq(l, off + 1, Min(off + size, Len(l)))

----------------------------------------------------------------------------
\* saveModel (lines 182-197)

BestFile   == "best.mdl"
SecondFile == "secondBest.mdl"

\* A saveModel that does not rotate the previous best
MvNothing(files) == files

\* mv outDir/best.mdl outDir/secondBest.mdl 2>/dev/null
Mv(files) ==
  IF BestFile \in DOMAIN files
    THEN [f \in (DOMAIN files \ {BestFile}) \cup {SecondFile} |->
            IF f = SecondFile THEN files[BestFile] ELSE files[f]]
    ELSE files

\* open(outDir/best.mdl, "wb"); pickle.dump(bundle)
Dump(files, bundle) ==
  [f \in DOMAIN files \cup {BestFile} |->
      IF f = BestFile THEN bundle ELSE files[f]]

\* [sVocab, tVocab, sEmbedding, tEmbedding, rnn]
Bundle(model) == <<"s2idx", "t2idx", "sEmbeddings", "tEmbeddings", model>>

NoFiles == [f \in {} |-> 0]

----------------------------------------------------------------------------
\* The training program: lines 252-288

SmallLr == 15    \* 1.5e-5: one halving takes it below 1e-5

Examples(n) == [p \in 1..n |-> p]

\* Values of the program's variables before line 252, for a phrase table of
\* n usable pairs and the hyperparameters given
TrainStart(n, sd, size, budget, rate, keep) ==
  /\ phrasePairs = Examples(n)
  /\ seed = sd /\ bs = size /\ nepochs = budget /\ lr = rate
  /\ train = <<>> /\ dev = <<>>
  /\ rnn = 0
  /\ best_dev_nll = Inf
  /\ clr = [num |-> rate, exp |-> 0]
  /\ e = 0 /\ ce = NoKey /\ be = NoKey
  /\ dev_nll = Inf
  /\ i = 0
  /\ fs = NoFiles
  /\ pc = "partition"
  /\ calls = <<>>
  /\ hist = [on |-> keep, log |-> <<>>]
  /\ saves = <<>>
  /\ order0 = <<>>

VocabIdle ==
  /\ corpus = <<>> /\ pruneThreshold = 0
  /\ vectorFile = [dim |-> EmbDimension, words |-> {}]
  /\ vocab = <<>> /\ rVocab = <<>> /\ coverage = <<0, 1>>
  /\ unkCount = 0 /\ embeddings = <<>>
  /\ vpc = "idle"

\* Small configurations; the shipped hyperparameters; and small
\* configurations for which the history of evaluations is kept
Init ==
  /\ VocabIdle
  /\ \/ \E n \in 0..MaxN, sd \in Seeds, size \in 1..MaxBs,
           rate \in {ShippedLr, SmallLr} :
          TrainStart(n, sd, size, MaxEpochs, rate, FALSE)
     \/ \E n \in 0..MaxN :
          TrainStart(n, ShippedSeed, ShippedBs, ShippedNepochs, ShippedLr, FALSE)
     \/ \E n \in {0, MaxN}, rate \in {ShippedLr, SmallLr} :
          TrainStart(n, ShippedSeed, ShippedBs, MaxEpochs, rate, TRUE)

\* lines 252-263: train, dev = getPartitions(phrasePairs, s['seed']);
\* best_dev_nll = np.inf; s['clr'] = s['lr']
GetPartitions ==
  /\ UNCHANGED vocabVars
  /\ pc = "partition"
  /\ phrasePairs' = Shuffled(phrasePairs, seed)
  /\ train' = TrainPart(phrasePairs, seed)
  /\ dev' = DevPart(phrasePairs, seed)
  /\ best_dev_nll' = Inf
  /\ clr' = [num |-> lr, exp |-> 0]
  /\ e' = 0
  /\ pc' = "for"
  /\ UNCHANGED <<seed, bs, nepochs, lr, rnn, ce, be, dev_nll, i, fs,
                 calls, hist, saves, order0>>

\* An epoch start that shuffles a fresh copy of the partition instead of
\* the list left by the previous epoch
StartEpochFresh ==
  /\ UNCHANGED vocabVars
  /\ pc = "for" /\ e < nepochs
  /\ train' = Shuffle(SubSeq(phrasePairs, 1, SplitPoint(Len(phrasePairs))),
                      seed)
  /\ ce' = e
  /\ i' = 0
  /\ calls' = <<>>
  /\ order0' = IF e = 0 THEN train' ELSE order0
  /\ pc' = "batch"
  /\ UNCHANGED <<phrasePairs, seed, bs, nepochs, lr, dev, rnn, best_dev_nll,
                 clr, e, be, dev_nll, fs, hist, saves>>

\* lines 264-267: the loop takes its next e; shuffle(train, s['seed']);
\* s['ce'] = e
StartEpoch ==
  /\ UNCHANGED vocabVars
  /\ pc = "for" /\ e < nepochs
  /\ train' = Shuffle(train, seed)
  /\ ce' = e
  /\ i' = 0
  /\ calls' = <<>>
  /\ order0' = IF e = 0 THEN train' ELSE order0
  /\ pc' = "batch"
  /\ UNCHANGED <<phrasePairs, seed, bs, nepochs, lr, dev, rnn, best_dev_nll,
                 clr, e, be, dev_nll, fs, hist, saves>>

\* line 264: xrange(s['nepochs']) is exhausted; line 288
LoopExhausted ==
  /\ UNCHANGED vocabVars
  /\ pc = "for" /\ e >= nepochs
  /\ pc' = "done"
  /\ UNCHANGED <<phrasePairs, seed, bs, nepochs, lr, train, dev, rnn,
                 best_dev_nll, clr, e, ce, be, dev_nll, i, fs,
                 calls, hist, saves, order0>>

\* lines 269-270: the next batch of minibatch(train, bs) goes to rnn.train
TrainBatch ==
  /\ UNCHANGED vocabVars
  /\ pc = "batch" /\ i < Len(train)
  /\ rnn' = rnn + 1
  /\ calls' = Append(calls, [op |-> "train", arg |-> Batch(train, i, bs),
                             rate |-> clr])
  /\ i' = i + bs
  /\ UNCHANGED <<phrasePairs, seed, bs, nepochs, lr, train, dev, best_dev_nll,
                 clr, e, ce, be, dev_nll, fs, pc, hist, saves, order0>>

\* line 276: dev_nll = rnn.test(dev), any float
Test ==
  /\ UNCHANGED vocabVars
  /\ pc = "batch" /\ i >= Len(train)
  /\ \E l \in Losses : dev_nll' = l
  /\ calls' = Append(calls, [op |-> "test", arg |-> dev, rate |-> clr])
  /\ hist' = IF hist.on
               THEN [hist EXCEPT !.log = Append(@, [loss |-> dev_nll',
                                                    model |-> rnn])]
               ELSE hist
  /\ pc' = "improve"
  /\ UNCHANGED <<phrasePairs, seed, bs, nepochs, lr, train, dev, rnn,
                 best_dev_nll, clr, e, ce, be, i, fs, saves, order0>>

\* An improvement test that also accepts a loss equal to the best
ImprovesOrTies(a, b) == Lt(a, b) \/ (a.k # "nan" /\ a = b)

\* line 279: dev_nll < best_dev_nll
Improves(a, b) == Lt(a, b)

\* lines 279-282: a new best is recorded and saveModel is entered
Improve ==
  /\ UNCHANGED vocabVars
  /\ pc = "improve"
  /\ IF Improves(dev_nll, best_dev_nll)
       THEN /\ best_dev_nll' = dev_nll
            /\ be' = e
            /\ saves' = Append(saves, Bundle(rnn))
            /\ pc' = "mv"
       ELSE /\ pc' = "decay"
            /\ UNCHANGED <<best_dev_nll, be, saves>>
  /\ UNCHANGED <<phrasePairs, seed, bs, nepochs, lr, train, dev, rnn,
                 clr, e, ce, dev_nll, i, fs, calls, hist, order0>>

\* lines 194-195 of saveModel
SaveMv ==
  /\ UNCHANGED vocabVars
  /\ pc = "mv"
  /\ fs' = Mv(fs)
  /\ pc' = "dump"
  /\ UNCHANGED <<phrasePairs, seed, bs, nepochs, lr, train, dev, rnn,
                 best_dev_nll, clr, e, ce, be, dev_nll, i,
                 calls, hist, saves, order0>>

\* lines 196-197 of saveModel
SaveDump ==
  /\ UNCHANGED vocabVars
  /\ pc = "dump"
  /\ fs' = Dump(fs, Bundle(rnn))
  /\ pc' = "decay"
  /\ UNCHANGED <<phrasePairs, seed, bs, nepochs, lr, train, dev, rnn,
                 best_dev_nll, clr, e, ce, be, dev_nll, i,
                 calls, hist, saves, order0>>

Abs(x) == IF x < 0 THEN -x ELSE x

\* A decay test that waits one epoch longer
StaleLate(b, c) == Abs(b - c) > PatienceEpochs

\* line 285: abs(s['be'] - s['ce']) >= 3
Stale(b, c) == Abs(b - c) >= PatienceEpochs

\* line 285: the rate after the decay check
Decayed(c, b, cur) == IF Stale(b, cur) THEN Halve(c) ELSE c

\* lines 285-286: decay, then break or go on to the next e
Decay ==
  /\ UNCHANGED vocabVars
  /\ pc = "decay" /\ be # NoKey
  /\ clr' = Decayed(clr, be, ce)
  /\ IF BelowMinLr(clr')
       THEN pc' = "done" /\ e' = e
       ELSE pc' = "for" /\ e' = e + 1
  /\ UNCHANGED <<phrasePairs, seed, bs, nepochs, lr, train, dev, rnn,
                 best_dev_nll, ce, be, dev_nll, i, fs,
                 calls, hist, saves, order0>>

\* line 285 when no epoch has improved yet: s['be'] raises KeyError
DecayKeyError ==
  /\ UNCHANGED vocabVars
  /\ pc = "decay" /\ be = NoKey
  /\ pc' = "crashed"
  /\ UNCHANGED <<phrasePairs, seed, bs, nepochs, lr, train, dev, rnn,
                 best_dev_nll, clr, e, ce, be, dev_nll, i, fs,
                 calls, hist, saves, order0>>

Next ==
  \/ GetPartitions
  \/ StartEpoch
  \/ LoopExhausted
  \/ TrainBatch
  \/ Test
  \/ Improve
  \/ SaveMv
  \/ SaveDump
  \/ Decay
  \/ DecayKeyError

Spec == Init /\ [][Next]_vars

----------------------------------------------------------------------------
\* The vocabulary program: parseCorpus (76-112), readWordVectors (24-73)

Tokens   == {"UNK", "a", "b"}
OtherDim == 100    \* a header dimension that is not s['emb_dimension']
UnkStart == -1     \* unkCount before the scan (line 66)

SeqsUpTo(S, n) == UNION {[1..m -> S] : m \in 0..n}

RECURSIVE Flatten(_)
Flatten(ls) == IF ls = <<>> THEN <<>> ELSE Head(ls) \o Flatten(Tail(ls))

\* lines 90-94: freq[word] = freq.get(word, 0) + 1 over every word
Freq(ls) ==
  LET ws == Flatten(ls)
  IN  [w \in {ws[p] : p \in 1..Len(ws)} |->
         Cardinality({p \in 1..Len(ws) : ws[p] = w})]

\* The orders in which a dictionary with keys S can be iterated
Orders(S) ==
  {o \in [1..Cardinality(S) -> S] :
     \A a, b \in 1..Cardinality(S) : a # b => o[a] # o[b]}

\* freq.items() in iteration order o
Items(fr, o) == [p \in 1..Len(o) |-> <<o[p], fr[o[p]]>>]

\* reduce(lambda x, y: x + y, ...) over the counts of items
RECURSIVE SumCounts(_)
SumCounts(items) ==
  IF items = <<>> THEN 0 ELSE Head(items)[2] + SumCounts(Tail(items))

\* sorted(..., key=itemgetter(1), reverse=True): stable, count descending
RECURSIVE InsertDesc(_, _)
InsertDesc(x, sorted) ==
  IF sorted = <<>> THEN <<x>>
  ELSE IF Head(sorted)[2] >= x[2]
         THEN <<Head(sorted)>> \o InsertDesc(x, Tail(sorted))
         ELSE <<x>> \o sorted

RECURSIVE SortDesc(_, _)
SortDesc(items, acc) ==
  IF items = <<>> THEN acc
  ELSE SortDesc(Tail(items), InsertDesc(Head(items), acc))

\* freqSort[:pruneThreshold]
Prune(items, t) == SubSeq(items, 1, Min(t, Len(items)))

\* d[key] = val
Put(d, key, val) ==
  [x \in DOMAIN d \cup {key} |-> IF x = key THEN val ELSE d[x]]

\* lines 102-110: vocab["UNK"] = 0, then vocab[item[0]] = vocabID
RECURSIVE FillVocab(_, _, _)
FillVocab(v, items, id) ==
  IF items = <<>> THEN v
  ELSE FillVocab(Put(v, Head(items)[1], id + 1), Tail(items), id + 1)

MakeVocab(kept) == FillVocab(Put(<<>>, "UNK", 0), kept, 0)

\* lines 103-110: rVocab[0] = "UNK", then rVocab[vocabID] = item[0]
RECURSIVE FillRVocab(_, _, _)
FillRVocab(r, items, id) ==
  IF items = <<>> THEN r
  ELSE FillRVocab(Put(r, id + 1, Head(items)[1]), Tail(items), id + 1)

MakeRVocab(kept) == FillRVocab(Put(<<>>, 0, "UNK"), kept, 0)

\* lines 66-69: -1 plus the ids whose word has no vector
CountUnk(rv, words) ==
  UnkStart + Cardinality({id \in 0..(Cardinality(DOMAIN rv) - 1) :
                            rv[id] \notin words})

\* lines 62-70: the row of every id
MakeEmbeddings(rv, words) ==
  [id \in 0..(Cardinality(DOMAIN rv) - 1) |->
     IF rv[id] \in words THEN <<"vector", rv[id]>> ELSE <<"ones", "">>]

TrainIdle == TrainStart(0, ShippedSeed, ShippedBs, ShippedNepochs, ShippedLr,
                        FALSE)

InitVocab ==
  /\ TrainIdle
  /\ corpus \in SeqsUpTo(SeqsUpTo(Tokens, MaxLineLen), MaxLines)
  /\ pruneThreshold \in 0..MaxPrune
  /\ vectorFile \in [dim : {EmbDimension, OtherDim}, words : SUBSET Tokens]
  /\ vocab = <<>> /\ rVocab = <<>> /\ coverage = <<0, 1>>
  /\ unkCount = 0 /\ embeddings = <<>>
  /\ vpc = "parse"

\* parseCorpus on a corpus with at least one word and a threshold >= 1;
\* o is the order in which freq is iterated
ParseCorpus ==
  /\ UNCHANGED trainVars
  /\ vpc = "parse"
  /\ DOMAIN Freq(corpus) # {} /\ pruneThreshold > 0
  /\ \E o \in Orders(DOMAIN Freq(corpus)) :
       LET items == Items(Freq(corpus), o)
           kept  == Prune(SortDesc(items, <<>>), pruneThreshold)
       IN  /\ coverage' = <<SumCounts(kept), SumCounts(items)>>
           /\ vocab' = MakeVocab(kept)
           /\ rVocab' = MakeRVocab(kept)
  /\ vpc' = "embed"
  /\ UNCHANGED <<corpus, pruneThreshold, vectorFile, unkCount, embeddings>>

\* lines 97 and 101: reduce() of an empty sequence raises TypeError
ParseCorpusTypeError ==
  /\ UNCHANGED trainVars
  /\ vpc = "parse"
  /\ DOMAIN Freq(corpus) = {} \/ pruneThreshold = 0
  /\ vpc' = "crashed"
  /\ UNCHANGED <<corpus, pruneThreshold, vectorFile, vocab, rVocab, coverage,
                 unkCount, embeddings>>

\* readWordVectors(vectorBin, idx2s, s['emb_dimension'])
ReadWordVectors ==
  /\ UNCHANGED trainVars
  /\ vpc = "embed"
  /\ vectorFile.dim = EmbDimension
  /\ unkCount' = CountUnk(rVocab, vectorFile.words)
  /\ embeddings' = MakeEmbeddings(rVocab, vectorFile.words)
  /\ vpc' = "done"
  /\ UNCHANGED <<corpus, pruneThreshold, vectorFile, vocab, rVocab, coverage>>

\* line 45: assert vector_size == dim
ReadWordVectorsAssert ==
  /\ UNCHANGED trainVars
  /\ vpc = "embed"
  /\ vectorFile.dim # EmbDimension
  /\ vpc' = "crashed"
  /\ UNCHANGED <<corpus, pruneThreshold, vectorFile, vocab, rVocab, coverage,
                 unkCount, embeddings>>

NextVocab ==
  \/ ParseCorpus
  \/ ParseCorpusTypeError
  \/ ReadWordVectors
  \/ ReadWordVectorsAssert

SpecVocab == InitVocab /\ [][NextVocab]_vars

----------------------------------------------------------------------------
\* Properties of the training program

Log == hist.log

Elems(l) == {l[p] : p \in 1..Len(l)}

\* The epochs (1-based positions of Log) whose loss is the least number
\* observed; +inf and nan are above every finite loss
MinEpochs ==
  {m \in 1..Len(Log) :
     /\ Log[m].loss.k = "fin"
     /\ \A j \in 1..Len(Log) :
          Log[j].loss.k = "fin" => Log[m].loss.v <= Log[j].loss.v}

Earliest(S) == CHOOSE m \in S : \A j \in S : m <= j

\* The improvement check and the checkpoint of the last evaluation are over
Settled == pc \in {"decay", "for", "batch", "done", "crashed"}

BestIsMinimum ==
  (hist.on /\ Settled /\ Len(Log) >= 1) =>
    IF MinEpochs = {}
      THEN BestFile \notin DOMAIN fs /\ best_dev_nll = Inf
      ELSE /\ BestFile \in DOMAIN fs
           /\ fs[BestFile] = Bundle(Log[Earliest(MinEpochs)].model)
           /\ best_dev_nll = Log[Earliest(MinEpochs)].loss

\* The loss of the last evaluation is below every loss seen before it
LastIsStrictlyLowest ==
  /\ Len(Log) >= 1
  /\ Log[Len(Log)].loss.k = "fin"
  /\ \A j \in 1..(Len(Log) - 1) :
       \/ Log[j].loss.k # "fin"
       \/ Log[Len(Log)].loss.v < Log[j].loss.v

WritesOnlyOnImprovement ==
  (hist.on /\ fs' # fs) => LastIsStrictlyLowest

\* C1: at the end of every epoch, and when the loop has ended, best.mdl holds
\* the model as it was in the earliest epoch whose loss is the minimum of the
\* losses observed and the recorded best loss is that minimum; an epoch whose
\* loss is not strictly lower than every earlier one writes no file.
C1_BestCheckpointIsMinimum ==
  [](BestIsMinimum) /\ [][WritesOnlyOnImprovement]_vars

\* C1 witness: three epochs with losses 2, 1, 1 have run to the end of the
\* loop and best.mdl holds the model of the second one.
C1_Witness ==
  /\ hist.on /\ pc = "done" /\ Len(Log) >= 3
  /\ Log[1].loss = Fin(2) /\ Log[2].loss = Fin(1) /\ Log[3].loss = Fin(1)
  /\ Log[2].model # Log[3].model
  /\ fs[BestFile] = Bundle(Log[2].model)

\* The decay check of an epoch: halved once when the epoch is at least 3
\* after the best epoch, unchanged otherwise
DecayStepRule ==
  IF pc = "decay"
    THEN IF be # NoKey /\ ce - be >= 3
           THEN clr' = [num |-> clr.num, exp |-> clr.exp + 1]
           ELSE clr' = clr
    ELSE clr' = clr

\* With the best epoch at 0, the epochs 3..ce have each halved the rate once
HalvingsSinceEpochZero ==
  (be = 0 /\ pc \in {"for", "done"}) =>
    clr = [num |-> lr, exp |-> IF ce >= 3 THEN ce - 2 ELSE 0]

\* C2: the rate changes only in the decay check of an epoch, where it is
\* halved once if e - bestEpoch >= 3 and left alone otherwise; with the best
\* epoch fixed at 0 it is unchanged in epochs 0..2 and halved in each of 3..e.
C2_DecayRule ==
  [][DecayStepRule]_vars /\ [](HalvingsSinceEpochZero)

\* C2 witness: best epoch 0, epoch 4 is over and the rate was halved twice.
C2_Witness ==
  /\ pc = "for" /\ be = 0 /\ ce = 4
  /\ clr = [num |-> ShippedLr, exp |-> 2]

\* C3: the loop always reaches DONE (whatever rnn.test returns), after at
\* most nepochs epochs, and goes on to a next epoch only with a rate that is
\* not below 1e-5.
C3_AlwaysReachesDone ==
  /\ pc = "done" \/ ENABLED Next
  /\ e <= nepochs
  /\ (pc = "for" /\ e >= 1) => ~BelowMinLr(clr)

\* With the shipped hyperparameters and no improvement after epoch 0 the
\* loop breaks on the rate, before the epoch budget is used up
ShippedStopsEarly ==
  (nepochs = ShippedNepochs /\ lr = ShippedLr /\ be = 0 /\ pc = "done") =>
    /\ BelowMinLr(clr)
    /\ ce + 1 < ShippedNepochs
    /\ clr.exp = ce - 2

\* saveModel has returned from every call made so far
SavesDone == pc \notin {"mv", "dump"}

\* C4: after k >= 1 saves best.mdl holds the k-th bundle; for k >= 2
\* secondBest.mdl holds the (k-1)-th; for k = 1 there is no secondBest.mdl;
\* no file other than these two ever exists.
C4_BestAndSecondBest ==
  /\ DOMAIN fs \subseteq {BestFile, SecondFile}
  /\ (SavesDone /\ Len(saves) = 0) => DOMAIN fs = {}
  /\ (SavesDone /\ Len(saves) = 1) =>
        DOMAIN fs = {BestFile} /\ fs[BestFile] = saves[1]
  /\ (SavesDone /\ Len(saves) >= 2) =>
        /\ DOMAIN fs = {BestFile, SecondFile}
        /\ fs[BestFile] = saves[Len(saves)]
        /\ fs[SecondFile] = saves[Len(saves) - 1]

\* C4 witness: three saves of three different bundles are over.
C4_Witness ==
  /\ SavesDone /\ Len(saves) = 3
  /\ saves[1] # saves[2] /\ saves[2] # saves[3]
  /\ fs[SecondFile] = saves[2]

\* C5: right after getPartitions, train is the first floor(0.8 N) positions
\* of the shuffled list and dev is the rest; they share no example, train
\* followed by dev is the shuffled list, and every input example 1..N is in
\* the shuffled list exactly once.
C5_Partition ==
  (pc = "for" /\ e = 0) =>
    LET n == Len(phrasePairs)
        t == Len(train)
    IN  /\ 5 * t <= 4 * n /\ 4 * n < 5 * (t + 1)
        /\ Len(dev) = n - t
        /\ train \o dev = phrasePairs
        /\ train = SubSeq(phrasePairs, 1, t)
        /\ dev = SubSeq(phrasePairs, t + 1, n)
        /\ Elems(train) \cap Elems(dev) = {}
        /\ Elems(phrasePairs) = 1..n
        /\ \A p, q \in 1..n : phrasePairs[p] = phrasePairs[q] => p = q
        /\ (n = 0 => train = <<>> /\ dev = <<>>)

\* C5 witness: five examples were shuffled out of their order and split 4/1.
C5_Witness ==
  /\ pc = "for" /\ e = 0
  /\ Len(phrasePairs) = 5 /\ phrasePairs # Examples(5)
  /\ Len(train) = 4 /\ Len(dev) = 1

RECURSIVE ShuffleTimes(_, _, _)
ShuffleTimes(l, n, sd) ==
  IF n = 0 THEN l ELSE ShuffleTimes(Shuffle(l, sd), n - 1, sd)

\* C8 as stated: the order presented to train is the same in every epoch.
C8_SameOrderEveryEpoch ==
  pc = "batch" => train = order0

\* C8 amended: every epoch applies the same position permutation to the list
\* as the previous epoch left it, so the order presented in epoch e is the
\* partition's training list shuffled e+1 times.
C8_OrderIsIteratedShuffle ==
  pc = "batch" =>
    train = ShuffleTimes(SubSeq(phrasePairs, 1, (4 * Len(phrasePairs)) \div 5),
                         ce + 1, seed)

\* C8 witness: the second epoch presents an order other than the first's.
C8_Witness ==
  pc = "batch" /\ ce = 1 /\ train # order0

\* The evaluation of epoch ce has been made and epoch ce+1 has not begun
EpochOver ==
  \/ pc \in {"improve", "mv", "dump", "decay", "crashed"}
  \/ pc \in {"for", "done"} /\ ce # NoKey

RECURSIVE ConcatArgs(_, _)
ConcatArgs(cs, n) ==
  IF n = 0 THEN <<>> ELSE ConcatArgs(cs, n - 1) \o cs[n].arg

\* C9: the calls of an epoch are ceil(N/bs) calls of train followed by one
\* call of test on dev; the batches are full except possibly the last, which
\* has 1..bs examples; in call order they concatenate to the training list;
\* no batch holds a dev example; all train calls carry the same rate.
C9_EpochCalls ==
  /\ pc = "batch" => \A p \in 1..Len(calls) : calls[p].op = "train"
  /\ EpochOver =>
       LET k == Len(calls) - 1
           n == Len(train)
       IN  /\ k >= 0
           /\ k * bs >= n /\ (k - 1) * bs < n /\ (n = 0 => k = 0)
           /\ \A p \in 1..k :
                /\ calls[p].op = "train"
                /\ calls[p].rate = calls[1].rate
                /\ Len(calls[p].arg) >= 1 /\ Len(calls[p].arg) <= bs
                /\ p < k => Len(calls[p].arg) = bs
                /\ Elems(calls[p].arg) \cap Elems(dev) = {}
           /\ ConcatArgs(calls, k) = train
           /\ calls[k + 1].op = "test" /\ calls[k + 1].arg = dev

\* C9 witness: an epoch after the first is over with three training examples
\* in batches of two: two calls of train, then one of test.
C9_Witness ==
  /\ EpochOver /\ ce >= 1 /\ bs = 2 /\ Len(train) = 3
  /\ Len(calls) = 3 /\ Len(calls[2].arg) = 1

\* C10: whenever the decay check is evaluated the best epoch has been set
\* and 0 <= bestEpoch <= currentEpoch.
C10_BestEpochDefined ==
  pc = "decay" => (be # NoKey /\ 0 <= be /\ be <= ce)

----------------------------------------------------------------------------
\* Properties of the vocabulary program

\* C6: vocab["UNK"] = 0 and rVocab[0] = "UNK", the two mappings are inverses
\* of one another, and the vocabulary has at most pruneThreshold + 1 entries.
C6_VocabInverse ==
  vpc \in {"embed", "done"} =>
    /\ vocab["UNK"] = 0 /\ rVocab[0] = "UNK"
    /\ \A w \in DOMAIN vocab : rVocab[vocab[w]] = w
    /\ \A id \in DOMAIN rVocab : vocab[rVocab[id]] = id
    /\ Cardinality(DOMAIN vocab) <= pruneThreshold + 1

\* C7: unkCount is the number of ids 1..K whose token has no vector in the
\* external table, and it is never negative.
C7_UnkCount ==
  vpc = "done" =>
    /\ unkCount = Cardinality({id \in DOMAIN rVocab \ {0} :
                                 rVocab[id] \notin vectorFile.words})
    /\ unkCount >= 0

====
